---- MODULE Spec2Model ----
(***************************************************************************)
(* Hamming(7,4) / Hamming(15,11) codec (src/hamming.py) and the GDD        *)
(* compression pipeline built on it (src/hamming_gdd.py).                  *)
(*                                                                         *)
(* Bit vectors are sequences over {0,1}; matrices are sequences of rows.   *)
(* Python list positions are 0-based; sequence positions here are 1-based, *)
(* but every index the program stores as data (the back-references in      *)
(* bases) keeps its 0-based Python value.                                  *)
(*                                                                         *)
(* A call that may raise returns a record whose exc field is the message   *)
(* of the exception ("" when the call returned normally) and whose val     *)
(* field is the returned value.  A call that may write into the list it    *)
(* was given has a third field, codeword: the contents of the caller's     *)
(* list object when the call ends.                                         *)
(***************************************************************************)
EXTENDS Integers, Sequences, FiniteSets, TLC

\* Bounds of the model.
MaxShortLen == 8
NumBytes == 3
MaxDataLen == 5

\* The bytes long inputs are built from; the first NumBytes of them are used.
SampleBytes == <<0, 1, 255, 128, 90, 37>>

VARIABLES
    pc,                  \* position of the running call sequence
    input,               \* the bit vector handed to the codec, as it was before the call
    message_on_wire,     \* hamming_encode's result
    recieved,            \* the list object handed to hamming_decode
    decoded_mes,         \* data bits returned by hamming_decode
    syndrome,            \* syndrome returned by hamming_decode
    bit_idx,             \* the bit position being corrupted
    bitlist,             \* the block being rebuilt from (base, syndrome)
    exc,                 \* message of the exception that ended the call, "" if none
    family,              \* 74 or 1511
    data,                \* the caller's byte sequence
    padded,              \* compress's local data (after the padding byte)
    pos,                 \* number of loop iterations done
    is_odd,
    current_bytes,
    bases,
    deviations,
    reconstructed_bytes,
    result               \* bytes returned by decompress

codecVars == <<input, message_on_wire, recieved, decoded_mes, syndrome, bit_idx, bitlist>>
gddVars == <<family, data, padded, pos, is_odd, current_bytes, bases, deviations,
             reconstructed_bytes, result>>
vars == <<pc, exc, codecVars, gddVars>>

----------------------------------------------------------------------------
(* GF(2) arithmetic, src/hamming.py *)

\* Variant: addition done as OR instead of XOR.
_gf2_add_or(bit1, bit2) == IF (bit1 # 0) \/ (bit2 # 0) THEN 1 ELSE 0

_gf2_add(bit1, bit2) == IF (bit1 # 0) # (bit2 # 0) THEN 1 ELSE 0

_gf2_mul(bit1, bit2) == IF (bit1 # 0) /\ (bit2 # 0) THEN 1 ELSE 0

\* [row for (idx, row) in enumerate(matrix) if vector[idx] == 1], from position idx on
RECURSIVE matrix_rows_to_xor(_, _, _)
matrix_rows_to_xor(vector, matrix, idx) ==
    IF idx > Len(matrix) THEN <<>>
    ELSE (IF vector[idx] = 1 THEN <<matrix[idx]>> ELSE <<>>)
         \o matrix_rows_to_xor(vector, matrix, idx + 1)

\* result[colidx] after the first n selected rows were added to it
RECURSIVE XorRows(_, _, _)
XorRows(rows, colidx, n) ==
    IF n = 0 THEN 0 ELSE _gf2_add(XorRows(rows, colidx, n - 1), rows[n][colidx])

_mul_vec_mat(vector, matrix) ==
    IF Len(vector) # Len(matrix)
    THEN [exc |-> "Wrong dimensions! Vector length must be the same as matrix rows",
          val |-> <<>>]
    ELSE LET rows == matrix_rows_to_xor(vector, matrix, 1)
         IN  [exc |-> "",
              val |-> [colidx \in 1..Len(matrix[1]) |-> XorRows(rows, colidx, Len(rows))]]

\* result[rowidx] after the first n columns of the row were accumulated
RECURSIVE DotRow(_, _, _)
DotRow(row, vector, n) ==
    IF n = 0 THEN 0
    ELSE _gf2_add(DotRow(row, vector, n - 1), _gf2_mul(row[n], vector[n]))

_mul_mat_vec(matrix, vector) ==
    IF Len(matrix[1]) # Len(vector)
    THEN [exc |-> "Wrong dimensions! Vector length must be the same as matrix columns",
          val |-> <<>>]
    ELSE [exc |-> "",
          val |-> [rowidx \in 1..Len(matrix) |-> DotRow(matrix[rowidx], vector, Len(vector))]]

----------------------------------------------------------------------------
(* The code tables, src/hamming.py *)

GENERATOR_3 == <<
    <<1,0,0,0, 1,0,1>>,
    <<0,1,0,0, 1,1,1>>,
    <<0,0,1,0, 1,1,0>>,
    <<0,0,0,1, 0,1,1>> >>

\* Variant: the fourth column repeats the first.
PARITY_CHECK_3_repeated_column == <<
    <<1,1,1,1, 1,0,0>>,
    <<0,1,1,0, 0,1,0>>,
    <<1,1,0,1, 0,0,1>> >>

PARITY_CHECK_3 == <<
    <<1,1,1,0, 1,0,0>>,
    <<0,1,1,1, 0,1,0>>,
    <<1,1,0,1, 0,0,1>> >>

GENERATOR_4 == <<
    <<1,0,0,0,0,0,0,0,0,0,0, 1,1,0,0>>,
    <<0,1,0,0,0,0,0,0,0,0,0, 1,0,1,0>>,
    <<0,0,1,0,0,0,0,0,0,0,0, 0,1,1,0>>,
    <<0,0,0,1,0,0,0,0,0,0,0, 1,1,1,0>>,
    <<0,0,0,0,1,0,0,0,0,0,0, 1,0,0,1>>,
    <<0,0,0,0,0,1,0,0,0,0,0, 0,1,0,1>>,
    <<0,0,0,0,0,0,1,0,0,0,0, 1,1,0,1>>,
    <<0,0,0,0,0,0,0,1,0,0,0, 0,0,1,1>>,
    <<0,0,0,0,0,0,0,0,1,0,0, 1,0,1,1>>,
    <<0,0,0,0,0,0,0,0,0,1,0, 0,1,1,1>>,
    <<0,0,0,0,0,0,0,0,0,0,1, 1,1,1,1>> >>

PARITY_CHECK_4 == <<
    <<1,1,0,1,1,0,1,0,1,0,1, 1,0,0,0>>,
    <<1,0,1,1,0,1,1,0,0,1,1, 0,1,0,0>>,
    <<0,1,1,1,0,0,0,1,1,1,1, 0,0,1,0>>,
    <<0,0,0,0,1,1,1,1,1,1,1, 0,0,0,1>> >>

----------------------------------------------------------------------------
(* The codec, src/hamming.py *)

\* Variant: a message that is too long is cut to its first 4 or 11 bits.
hamming_encode_truncating(message) ==
    IF Len(message) < 4 THEN [exc |-> "Message must be 4 or 11 bits!", val |-> <<>>]
    ELSE IF Len(message) < 11 THEN _mul_vec_mat(SubSeq(message, 1, 4), GENERATOR_3)
    ELSE _mul_vec_mat(SubSeq(message, 1, 11), GENERATOR_4)

hamming_encode(message) ==
    IF Len(message) = 4 THEN _mul_vec_mat(message, GENERATOR_3)
    ELSE IF Len(message) = 11 THEN _mul_vec_mat(message, GENERATOR_4)
    ELSE [exc |-> "Message must be 4 or 11 bits!", val |-> <<>>]

\* [parity_matrix[j][i] for j in range(len(parity_matrix))], i a 1-based position
parity_col(parity_matrix, i) ==
    [j \in 1..Len(parity_matrix) |-> parity_matrix[j][i]]

\* The column scan: the first position >= i whose column equals the syndrome,
\* 0 when the scan runs off the matrix.
RECURSIVE find_parity_col(_, _, _)
find_parity_col(parity_matrix, syn, i) ==
    IF i > Len(parity_matrix[1]) THEN 0
    ELSE IF parity_col(parity_matrix, i) = syn THEN i
    ELSE find_parity_col(parity_matrix, syn, i + 1)

\* Variant: the bit after the matching column is flipped (the last column
\* wraps to the first).
hamming_fix_with_syndrome_off_by_one(codeword, syn) ==
    IF syn = <<0,0,0>> \/ syn = <<0,0,0,0>>
    THEN [exc |-> "", val |-> codeword, codeword |-> codeword]
    ELSE IF Len(codeword) \notin {7, 15}
    THEN [exc |-> "Codeword must be 7 or 15 bits!", val |-> <<>>, codeword |-> codeword]
    ELSE LET parity_matrix == IF Len(codeword) = 7 THEN PARITY_CHECK_3 ELSE PARITY_CHECK_4
             i == find_parity_col(parity_matrix, syn, 1)
             at == (i % Len(codeword)) + 1
             flipped == [codeword EXCEPT ![at] = IF codeword[at] = 1 THEN 0 ELSE 1]
         IN  IF i # 0
             THEN [exc |-> "", val |-> flipped, codeword |-> flipped]
             ELSE [exc |-> "Failed to fix codeword, no fix found for syndrome",
                   val |-> <<>>, codeword |-> codeword]

hamming_fix_with_syndrome(codeword, syn) ==
    IF syn = <<0,0,0>> \/ syn = <<0,0,0,0>>
    THEN [exc |-> "", val |-> codeword, codeword |-> codeword]
    ELSE IF Len(codeword) \notin {7, 15}
    THEN [exc |-> "Codeword must be 7 or 15 bits!", val |-> <<>>, codeword |-> codeword]
    ELSE LET parity_matrix == IF Len(codeword) = 7 THEN PARITY_CHECK_3 ELSE PARITY_CHECK_4
             i == find_parity_col(parity_matrix, syn, 1)
             \* codeword[i] = 0 if codeword[i]==1 else 1 writes into the list it was
             \* given, and that same list is returned
             flipped == [codeword EXCEPT ![i] = IF codeword[i] = 1 THEN 0 ELSE 1]
         IN  IF i # 0
             THEN [exc |-> "", val |-> flipped, codeword |-> flipped]
             ELSE [exc |-> "Failed to fix codeword, no fix found for syndrome",
                   val |-> <<>>, codeword |-> codeword]

\* Variant: the data bits are taken from the end of the fixed codeword
\* (fixed_codeword[3:] / fixed_codeword[4:]).
hamming_decode_tail_bits(codeword) ==
    IF Len(codeword) \notin {7, 15}
    THEN [exc |-> "Codeword must be 7 or 15 bits!", val |-> <<>>, codeword |-> codeword]
    ELSE LET parity_matrix == IF Len(codeword) = 7 THEN PARITY_CHECK_3 ELSE PARITY_CHECK_4
             syn == _mul_mat_vec(parity_matrix, codeword)
             fixed == hamming_fix_with_syndrome(codeword, syn.val)
             data_bits == IF parity_matrix = PARITY_CHECK_3
                          THEN SubSeq(fixed.val, 4, 7)
                          ELSE SubSeq(fixed.val, 5, 15)
         IN  IF syn.exc # ""
             THEN [exc |-> syn.exc, val |-> <<>>, codeword |-> codeword]
             ELSE IF fixed.exc # ""
             THEN [exc |-> fixed.exc, val |-> <<>>, codeword |-> fixed.codeword]
             ELSE [exc |-> "", val |-> <<data_bits, syn.val>>, codeword |-> fixed.codeword]

\* The first assignment to data_bits (by the shape of GENERATOR_3) is
\* overwritten by the second before it is read; the second is the one below.
hamming_decode(codeword) ==
    IF Len(codeword) \notin {7, 15}
    THEN [exc |-> "Codeword must be 7 or 15 bits!", val |-> <<>>, codeword |-> codeword]
    ELSE LET parity_matrix == IF Len(codeword) = 7 THEN PARITY_CHECK_3 ELSE PARITY_CHECK_4
             syn == _mul_mat_vec(parity_matrix, codeword)
             fixed == hamming_fix_with_syndrome(codeword, syn.val)
             data_bits == IF parity_matrix = PARITY_CHECK_3
                          THEN SubSeq(fixed.val, 1, 4)
                          ELSE SubSeq(fixed.val, 1, 11)
         IN  IF syn.exc # ""
             THEN [exc |-> syn.exc, val |-> <<>>, codeword |-> codeword]
             ELSE IF fixed.exc # ""
             THEN [exc |-> fixed.exc, val |-> <<>>, codeword |-> fixed.codeword]
             ELSE [exc |-> "", val |-> <<data_bits, syn.val>>, codeword |-> fixed.codeword]

----------------------------------------------------------------------------
(* Bit/byte conversion, src/hamming_gdd.py *)

\* the digits of '{0:0b}'.format(byte)
RECURSIVE binary_digits(_)
binary_digits(byte) ==
    IF byte < 2 THEN <<byte>> ELSE Append(binary_digits(byte \div 2), byte % 2)

\* while len(bitlist) < 8: bitlist.insert(0, 0)
RECURSIVE pad_front(_)
pad_front(bl) == IF Len(bl) < 8 THEN pad_front(<<0>> \o bl) ELSE bl

_byte_to_bitlist(byte) == pad_front(binary_digits(byte))

\* Variant: the list is walked MSB first, without reversing it.
list_not_reversed(bl) == bl

\* bitlist[::-1]
list_reversed(bl) == [idx \in 1..Len(bl) |-> bl[Len(bl) + 1 - idx]]

\* byte after the first n entries of the reversed list were visited
RECURSIVE add_powers(_, _)
add_powers(rev, n) ==
    IF n = 0 THEN 0
    ELSE add_powers(rev, n - 1) + (IF rev[n] # 0 THEN 2 ^ (n - 1) ELSE 0)

_bitlist_to_byte(bl) ==
    IF Len(bl) # 8 THEN [exc |-> "AssertionError", val |-> 0]
    ELSE [exc |-> "", val |-> add_powers(list_reversed(bl), Len(bl))]

----------------------------------------------------------------------------
(* Entries of bases: a literal base is [list |-> bits], a pointer to an    *)
(* earlier entry is [int |-> 0-based index].                               *)

is_list(entry) == "list" \in DOMAIN entry

\* bases.index(base): the 0-based index of the first entry equal to the list
\* base, searching from 1-based position j; -1 stands for ValueError.
RECURSIVE bases_index(_, _, _)
bases_index(bs, base, j) ==
    IF j > Len(bs) THEN -1
    ELSE IF is_list(bs[j]) /\ bs[j].list = base THEN j - 1
    ELSE bases_index(bs, base, j + 1)

\* Variant: every base is stored whole, known or not.
append_base_always_literal(bs, base) == Append(bs, [list |-> base])

\* Variant: a known base is stored as a pointer to its most recent
\* occurrence, literal or pointer.
append_base_latest(bs, base) ==
    LET same == {m \in 1..Len(bs) :
                   \/ is_list(bs[m]) /\ bs[m].list = base
                   \/ ~is_list(bs[m]) /\ is_list(bs[bs[m].int + 1])
                                      /\ bs[bs[m].int + 1].list = base}
    IN  IF same # {}
        THEN Append(bs, [int |-> (CHOOSE m \in same : \A o \in same : o <= m) - 1])
        ELSE Append(bs, [list |-> base])

\* try: bases.append(bases.index(base))  except ValueError: bases.append(base)
append_base(bs, base) ==
    LET base_idx == bases_index(bs, base, 1)
    IN  IF base_idx # -1 THEN Append(bs, [int |-> base_idx])
        ELSE Append(bs, [list |-> base])

\* Variant: the deviation is stored only next to a new base.
compress_chunk_dev_with_literal(bs, devs, block) ==
    LET n == Len(block) - 1
        r == hamming_decode(SubSeq(block, 1, n))
    IN  IF r.exc # "" THEN [exc |-> r.exc, bases |-> bs, deviations |-> devs]
        ELSE [exc |-> "",
              bases |-> append_base(bs, r.val[1]),
              deviations |-> IF bases_index(bs, r.val[1], 1) # -1 THEN devs
                             ELSE Append(devs, Append(r.val[2], block[n + 1]))]

\* One chunk of compress: block holds the n+1 bits of the chunk (8 or 16);
\* the first n go through the decoder, the last is carried over.
compress_chunk(bs, devs, block) ==
    LET n == Len(block) - 1
        r == hamming_decode(SubSeq(block, 1, n))
    IN  IF r.exc # "" THEN [exc |-> r.exc, bases |-> bs, deviations |-> devs]
        ELSE [exc |-> "",
              bases |-> append_base(bs, r.val[1]),
              deviations |-> Append(devs, Append(r.val[2], block[n + 1]))]

\* The 1-based position of the Python list element l[j]: j counts from the
\* front when it is >= 0 and from the end when it is negative.
list_position(l, j) == IF j >= 0 THEN j + 1 ELSE Len(l) + j + 1

\* full_base = base if isinstance(base, list) else bases[base]
full_base(bs, idx) ==
    IF is_list(bs[idx + 1]) THEN bs[idx + 1]
    ELSE bs[list_position(bs, bs[idx + 1].int)]

\* the lookup bases[base] of a pointer entry raises no IndexError: the
\* pointer lies in -len(bases) .. len(bases) - 1
pointer_in_range(bs, idx) ==
    is_list(bs[idx + 1]) \/ list_position(bs, bs[idx + 1].int) \in 1..Len(bs)

\* One entry of decompress: the n+1 bits rebuilt from bases[idx] and
\* deviations[idx]; k is the number of syndrome bits (3 or 4).  With k = 4
\* (gdd_hamming_1511_decompress) the encoded base is asserted to have 15 bits
\* before the syndrome is applied; the assert on len(dev) cannot fail once
\* dev[4] was read, and the one on len(bitlist) == 16 is left to the caller.
decompress_entry(bs, devs, idx, k) ==
    LET fb == full_base(bs, idx)
        dev == devs[idx + 1]
        carryover_bit == dev[k + 1]
        enc == IF is_list(fb) THEN hamming_encode(fb.list)
               ELSE [exc |-> "TypeError: object of type 'int' has no len()", val |-> <<>>]
        fixed == hamming_fix_with_syndrome(enc.val, SubSeq(dev, 1, k))
    IN  IF ~pointer_in_range(bs, idx) \/ idx + 1 > Len(devs)
        THEN [exc |-> "IndexError", val |-> <<>>]
        ELSE IF Len(dev) < k + 1 THEN [exc |-> "IndexError", val |-> <<>>]
        ELSE IF enc.exc # "" THEN [exc |-> enc.exc, val |-> <<>>]
        ELSE IF k = 4 /\ Len(enc.val) # 15 THEN [exc |-> "AssertionError", val |-> <<>>]
        ELSE IF fixed.exc # "" THEN [exc |-> fixed.exc, val |-> <<>>]
        ELSE [exc |-> "", val |-> Append(fixed.val, carryover_bit)]

----------------------------------------------------------------------------
(* Inputs *)

Bits(n) == [1..n -> {0, 1}]

\* Every bit vector of a length the codec accepts (4, 7, 11, 15) and every
\* shorter or in-between one up to MaxShortLen.
Words == UNION {Bits(n) : n \in 0..MaxShortLen} \cup Bits(11) \cup Bits(15)

ByteVals == {SampleBytes[i] : i \in 1..NumBytes}

\* Every sequence of sample bytes up to MaxDataLen, and every single byte.
Inputs == UNION {[1..n -> ByteVals] : n \in 0..MaxDataLen}
          \cup {<<b>> : b \in 0..255}

CodecIdle ==
    /\ input = <<>> /\ message_on_wire = <<>> /\ recieved = <<>>
    /\ decoded_mes = <<>> /\ syndrome = <<>> /\ bit_idx = 0 /\ bitlist = <<>>

GddIdle ==
    /\ family = 0 /\ data = <<>> /\ padded = <<>> /\ pos = 0 /\ is_odd = FALSE
    /\ current_bytes = <<>> /\ bases = <<>> /\ deviations = <<>>
    /\ reconstructed_bytes = <<>> /\ result = <<>>

----------------------------------------------------------------------------
(* Calls of the codec on one bit vector: src/hamming.py, and the per-block *)
(* statements of decompress in src/hamming_gdd.py.                         *)

InitCodec ==
    /\ pc = "init" /\ exc = ""
    /\ input \in Words
    /\ message_on_wire = <<>> /\ recieved = <<>>
    /\ decoded_mes = <<>> /\ syndrome = <<>> /\ bit_idx = 0 /\ bitlist = <<>>
    /\ GddIdle

\* message_on_wire = hamming_encode(message)
CallEncode ==
    /\ pc = "init"
    /\ LET r == hamming_encode(input)
       IN  /\ message_on_wire' = r.val
           /\ exc' = r.exc
           /\ pc' = IF r.exc = "" THEN "encoded" ELSE "encode_raised"
    /\ UNCHANGED <<input, recieved, decoded_mes, syndrome, bit_idx, bitlist, gddVars>>

\* recieved = message_on_wire; (decoded_mes, syndrome) = hamming_decode(recieved):
\* the decoder is handed the encoder's list itself.
DecodeOnWire ==
    /\ pc = "encoded"
    /\ LET r == hamming_decode(message_on_wire)
       IN  /\ recieved' = r.codeword
           /\ message_on_wire' = r.codeword
           /\ exc' = r.exc
           /\ decoded_mes' = IF r.exc = "" THEN r.val[1] ELSE <<>>
           /\ syndrome' = IF r.exc = "" THEN r.val[2] ELSE <<>>
           /\ pc' = IF r.exc = "" THEN "decoded_clean" ELSE "wire_decode_raised"
    /\ UNCHANGED <<input, bit_idx, bitlist, gddVars>>

\* for bit_idx in range(len(message_on_wire)):
\*     recieved = message_on_wire.copy(); recieved[bit_idx] = 1 if recieved[bit_idx] == 0 else 0
Corrupt ==
    /\ \/ pc = "decoded_clean" /\ bit_idx' = 0
       \/ pc = "decoded_corrupt" /\ bit_idx' = bit_idx + 1
    /\ bit_idx' < Len(message_on_wire)
    /\ recieved' = [message_on_wire EXCEPT
                       ![bit_idx' + 1] = IF message_on_wire[bit_idx' + 1] = 0 THEN 1 ELSE 0]
    /\ pc' = "corrupted"
    /\ UNCHANGED <<exc, input, message_on_wire, decoded_mes, syndrome, bitlist, gddVars>>

\* (decoded_mes, syndrome) = hamming_decode(recieved.copy()): the decoder is
\* handed a fresh copy, recieved itself is not touched.
DecodeCorrupted ==
    /\ pc = "corrupted"
    /\ LET r == hamming_decode(recieved)
       IN  /\ exc' = r.exc
           /\ decoded_mes' = IF r.exc = "" THEN r.val[1] ELSE <<>>
           /\ syndrome' = IF r.exc = "" THEN r.val[2] ELSE <<>>
           /\ pc' = IF r.exc = "" THEN "decoded_corrupt" ELSE "corrupt_decode_raised"
    /\ UNCHANGED <<input, message_on_wire, recieved, bit_idx, bitlist, gddVars>>

\* hamming_decode(codeword) called on the caller's own list: recieved is that
\* list, holding input when the call starts.
CallDecode ==
    /\ pc = "init"
    /\ LET r == hamming_decode(input)
       IN  /\ recieved' = r.codeword
           /\ exc' = r.exc
           /\ decoded_mes' = IF r.exc = "" THEN r.val[1] ELSE <<>>
           /\ syndrome' = IF r.exc = "" THEN r.val[2] ELSE <<>>
           /\ pc' = IF r.exc = "" THEN "decoded" ELSE "decode_raised"
    /\ UNCHANGED <<input, message_on_wire, bit_idx, bitlist, gddVars>>

\* bitlist = hamming_encode(full_base)
ReEncode ==
    /\ pc = "decoded"
    /\ LET r == hamming_encode(decoded_mes)
       IN  /\ bitlist' = r.val
           /\ exc' = r.exc
           /\ pc' = IF r.exc = "" THEN "reencoded" ELSE "reencode_raised"
    /\ UNCHANGED <<input, message_on_wire, recieved, decoded_mes, syndrome, bit_idx, gddVars>>

\* bitlist = hamming_fix_with_syndrome(bitlist, dev)
ApplySyndrome ==
    /\ pc = "reencoded"
    /\ LET r == hamming_fix_with_syndrome(bitlist, syndrome)
       IN  /\ bitlist' = r.codeword
           /\ exc' = r.exc
           /\ pc' = IF r.exc = "" THEN "replayed" ELSE "fix_raised"
    /\ UNCHANGED <<input, message_on_wire, recieved, decoded_mes, syndrome, bit_idx, gddVars>>

NextCodec ==
    \/ CallEncode
    \/ DecodeOnWire
    \/ Corrupt
    \/ DecodeCorrupted
    \/ CallDecode
    \/ ReEncode
    \/ ApplySyndrome

SpecCodec == InitCodec /\ [][NextCodec]_vars

----------------------------------------------------------------------------
(* compress followed by decompress on one byte sequence,                   *)
(* src/hamming_gdd.py.  One action per loop iteration.                     *)

InitGdd ==
    /\ pc = "call" /\ exc = ""
    /\ family \in {74, 1511}
    /\ data \in Inputs
    /\ padded = <<>> /\ pos = 0 /\ is_odd = FALSE
    /\ current_bytes = <<>> /\ bases = <<>> /\ deviations = <<>>
    /\ reconstructed_bytes = <<>> /\ result = <<>>
    /\ CodecIdle

\* gdd_hamming_74_compress: bases = []; deviations = []
Compress74Begin ==
    /\ pc = "call" /\ family = 74
    /\ bases' = <<>> /\ deviations' = <<>>
    /\ padded' = data
    /\ pos' = 0
    /\ pc' = "compress"
    /\ UNCHANGED <<exc, codecVars, family, data, is_odd, current_bytes,
                   reconstructed_bytes, result>>

\* gdd_hamming_74_compress: one iteration of "for byte in data"
Compress74Byte ==
    /\ pc = "compress" /\ family = 74
    /\ pos < Len(padded)
    /\ LET byte == padded[pos + 1]
           r == compress_chunk(bases, deviations, _byte_to_bitlist(byte))
       IN  /\ bases' = r.bases
           /\ deviations' = r.deviations
           /\ exc' = r.exc
           /\ pc' = IF r.exc = "" THEN "compress" ELSE "compress_raised"
    /\ pos' = pos + 1
    /\ UNCHANGED <<codecVars, family, data, padded, is_odd, current_bytes,
                   reconstructed_bytes, result>>

\* gdd_hamming_1511_compress: the statements before the loop
Compress1511Begin ==
    /\ pc = "call" /\ family = 1511
    /\ bases' = <<>> /\ deviations' = <<>>
    /\ is_odd' = (Len(data) % 2 # 0)
    /\ padded' = IF is_odd' THEN Append(data, 0) ELSE data
    /\ current_bytes' = <<>>
    /\ pos' = 0
    /\ pc' = "compress"
    /\ UNCHANGED <<exc, codecVars, family, data, reconstructed_bytes, result>>

\* gdd_hamming_1511_compress: an iteration that finds current_bytes empty
Compress1511FirstByte ==
    /\ pc = "compress" /\ family = 1511
    /\ pos < Len(padded)
    /\ current_bytes = <<>>
    /\ current_bytes' = _byte_to_bitlist(padded[pos + 1])
    /\ pos' = pos + 1
    /\ UNCHANGED <<pc, exc, codecVars, family, data, padded, is_odd, bases, deviations,
                   reconstructed_bytes, result>>

\* gdd_hamming_1511_compress: an iteration that completes a byte pair
Compress1511SecondByte ==
    /\ pc = "compress" /\ family = 1511
    /\ pos < Len(padded)
    /\ current_bytes # <<>>
    /\ LET r == compress_chunk(bases, deviations,
                               current_bytes \o _byte_to_bitlist(padded[pos + 1]))
       IN  /\ bases' = r.bases
           /\ deviations' = r.deviations
           /\ exc' = r.exc
           /\ pc' = IF r.exc = "" THEN "compress" ELSE "compress_raised"
    /\ current_bytes' = <<>>
    /\ pos' = pos + 1
    /\ UNCHANGED <<codecVars, family, data, padded, is_odd, reconstructed_bytes, result>>

\* return (bases, deviations) / return (is_odd, bases, deviations)
CompressReturn ==
    /\ pc = "compress"
    /\ pos = Len(padded)
    /\ pc' = "compressed"
    /\ UNCHANGED <<exc, codecVars, gddVars>>

\* decompress is called with what compress returned: reconstructed_bytes = []
DecompressBegin ==
    /\ pc = "compressed"
    /\ reconstructed_bytes' = <<>>
    /\ pos' = 0
    /\ pc' = "decompress"
    /\ UNCHANGED <<exc, codecVars, family, data, padded, is_odd, current_bytes, bases,
                   deviations, result>>

\* gdd_hamming_74_decompress: one iteration of "for (idx, base) in enumerate(bases)"
Decompress74Entry ==
    /\ pc = "decompress" /\ family = 74
    /\ pos < Len(bases)
    /\ LET r == decompress_entry(bases, deviations, pos, 3)
           current_byte == _bitlist_to_byte(r.val)
       IN  IF r.exc # ""
           THEN exc' = r.exc /\ pc' = "decompress_raised"
                /\ UNCHANGED reconstructed_bytes
           ELSE IF current_byte.exc # ""
           THEN exc' = current_byte.exc /\ pc' = "decompress_raised"
                /\ UNCHANGED reconstructed_bytes
           ELSE /\ reconstructed_bytes' = Append(reconstructed_bytes, current_byte.val)
                /\ UNCHANGED <<pc, exc>>
    /\ pos' = pos + 1
    /\ UNCHANGED <<codecVars, family, data, padded, is_odd, current_bytes, bases,
                   deviations, result>>

\* gdd_hamming_1511_decompress: one iteration of "for (idx, base) in enumerate(bases)"
Decompress1511Entry ==
    /\ pc = "decompress" /\ family = 1511
    /\ pos < Len(bases)
    /\ LET r == decompress_entry(bases, deviations, pos, 4)
           byte1 == _bitlist_to_byte(SubSeq(r.val, 1, 8))
           byte2 == _bitlist_to_byte(SubSeq(r.val, 9, Len(r.val)))
       IN  IF r.exc # ""
           THEN exc' = r.exc /\ pc' = "decompress_raised"
                /\ UNCHANGED reconstructed_bytes
           ELSE IF Len(r.val) # 16 \/ byte1.exc # "" \/ byte2.exc # ""
           THEN exc' = "AssertionError" /\ pc' = "decompress_raised"
                /\ UNCHANGED reconstructed_bytes
           ELSE /\ reconstructed_bytes' =
                       Append(Append(reconstructed_bytes, byte1.val), byte2.val)
                /\ UNCHANGED <<pc, exc>>
    /\ pos' = pos + 1
    /\ UNCHANGED <<codecVars, family, data, padded, is_odd, current_bytes, bases,
                   deviations, result>>

\* gdd_hamming_74_decompress: return bytes(reconstructed_bytes)
Decompress74Return ==
    /\ pc = "decompress" /\ family = 74
    /\ pos = Len(bases)
    /\ result' = reconstructed_bytes
    /\ pc' = "decompressed"
    /\ UNCHANGED <<exc, codecVars, family, data, padded, pos, is_odd, current_bytes,
                   bases, deviations, reconstructed_bytes>>

\* gdd_hamming_1511_decompress: if is_padded: reconstructed_bytes =
\* reconstructed_bytes[:-1]; return bytes(reconstructed_bytes)
Decompress1511Return ==
    /\ pc = "decompress" /\ family = 1511
    /\ pos = Len(bases)
    /\ reconstructed_bytes' =
           IF is_odd /\ reconstructed_bytes # <<>>
           THEN SubSeq(reconstructed_bytes, 1, Len(reconstructed_bytes) - 1)
           ELSE reconstructed_bytes
    /\ result' = reconstructed_bytes'
    /\ pc' = "decompressed"
    /\ UNCHANGED <<exc, codecVars, family, data, padded, pos, is_odd, current_bytes,
                   bases, deviations>>

NextGdd ==
    \/ Compress74Begin
    \/ Compress74Byte
    \/ Compress1511Begin
    \/ Compress1511FirstByte
    \/ Compress1511SecondByte
    \/ CompressReturn
    \/ DecompressBegin
    \/ Decompress74Entry
    \/ Decompress1511Entry
    \/ Decompress74Return
    \/ Decompress1511Return

SpecGdd == InitGdd /\ [][NextGdd]_vars

----------------------------------------------------------------------------
(* Properties of the codec, checked under SpecCodec *)

Zeros(n) == [i \in 1..n |-> 0]

IsZero(v) == \A i \in 1..Len(v) : v[i] = 0

\* number of positions in which two vectors of equal length differ
Distance(a, b) == Cardinality({i \in 1..Len(a) : a[i] # b[i]})

ColumnsOf(matrix) == 1..Len(matrix[1])

DistinctNonZeroColumns(matrix) ==
    /\ \A i \in ColumnsOf(matrix) : ~IsZero(parity_col(matrix, i))
    /\ \A i, j \in ColumnsOf(matrix) :
           i # j => parity_col(matrix, i) # parity_col(matrix, j)

\* a fact about the two tables alone, the same in every state
ColumnsDistinctNonZero ==
    /\ DistinctNonZeroColumns(PARITY_CHECK_3)
    /\ DistinctNonZeroColumns(PARITY_CHECK_4)

\* the parity-check matrix of an n-bit word
ParityOf(word) == IF Len(word) = 7 THEN PARITY_CHECK_3 ELSE PARITY_CHECK_4

\* C2: single-bit-error correction.  For every 4- and 11-bit message and every
\* bit position of its codeword, decoding the codeword with that one bit
\* flipped returns the message as data bits.
C2_SingleBitErrorCorrected ==
    /\ pc # "corrupt_decode_raised"
    /\ pc = "corrupted" =>
           /\ Distance(recieved, message_on_wire) = 1
           /\ recieved[bit_idx + 1] # message_on_wire[bit_idx + 1]
    /\ pc = "decoded_corrupt" => decoded_mes = input

C2_Witness ==
    /\ pc = "decoded_corrupt"
    /\ Len(input) = 11 /\ input[3] = 1
    /\ bit_idx = 14
    /\ recieved # message_on_wire
    /\ ~IsZero(syndrome)
    /\ decoded_mes = input

\* C3: round trip without error.  For every 4- and 11-bit message m,
\* hamming_decode(hamming_encode(m)) is (m, all-zero syndrome of length n-k).
C3_RoundTripNoError ==
    /\ Len(input) \in {4, 11} => pc \notin {"encode_raised", "wire_decode_raised"}
    /\ pc = "encoded" => Len(message_on_wire) = (IF Len(input) = 4 THEN 7 ELSE 15)
    /\ pc = "decoded_clean" =>
           /\ decoded_mes = input
           /\ syndrome = Zeros(IF Len(input) = 4 THEN 3 ELSE 4)

C3_Witness ==
    /\ pc = "decoded_clean"
    /\ Len(input) = 11 /\ input[1] = 1 /\ input[11] = 1
    /\ decoded_mes = input
    /\ syndrome = <<0, 0, 0, 0>>

\* C5: wrong-length inputs fail.  hamming_encode raises and returns no codeword
\* for every message whose length is not 4 or 11; hamming_decode raises and
\* returns no (data, syndrome) pair for every codeword whose length is not 7 or 15.
C5_WrongLengthRaises ==
    /\ (Len(input) \notin {4, 11} /\ pc \in {"encoded", "encode_raised"}) =>
           /\ pc = "encode_raised"
           /\ exc = "Message must be 4 or 11 bits!"
           /\ message_on_wire = <<>>
    /\ (Len(input) \notin {7, 15} /\ pc \in {"decoded", "decode_raised"}) =>
           /\ pc = "decode_raised"
           /\ exc = "Codeword must be 7 or 15 bits!"
           /\ decoded_mes = <<>> /\ syndrome = <<>>

C5_Witness ==
    \/ /\ pc = "encode_raised" /\ Len(input) = 5
       /\ exc = "Message must be 4 or 11 bits!" /\ message_on_wire = <<>>
    \/ /\ pc = "decode_raised" /\ Len(input) = 8
       /\ exc = "Codeword must be 7 or 15 bits!" /\ decoded_mes = <<>>

\* C6: hamming_decode and hamming_fix_with_syndrome leave the bit vector they
\* were given as it was: after hamming_decode returns, the caller's list holds
\* the bits it held before the call.
C6_DecodeLeavesArgumentUnchanged ==
    pc = "decoded" => recieved = input

\* C7: the columns of PARITY_CHECK_3 and PARITY_CHECK_4 are pairwise distinct
\* and non-zero; a non-zero syndrome of a 7- or 15-bit word equals exactly one
\* column; hamming_decode never raises "no fix found" on such a word.
C7_SyndromeMatchesOneColumn ==
    /\ ColumnsDistinctNonZero
    /\ (Len(input) \in {7, 15} /\ pc \in {"decoded", "decode_raised"}) =>
           /\ pc = "decoded" /\ exc = ""
           /\ Len(syndrome) = Len(ParityOf(input))
           /\ ~IsZero(syndrome) =>
                  Cardinality({i \in ColumnsOf(ParityOf(input)) :
                                   parity_col(ParityOf(input), i) = syndrome}) = 1

C7_Witness ==
    /\ pc = "decoded"
    /\ Len(input) = 15
    /\ syndrome = <<1, 1, 1, 1>>
    /\ recieved # input

\* C8: replay of a recorded deviation.  For every 7- and 15-bit word w with
\* (base, s) = hamming_decode(w): hamming_encode(base) differs from w in at most
\* one position, in none exactly when s is all-zero, and
\* hamming_fix_with_syndrome(hamming_encode(base), s) is w.
C8_ReplayRestoresWord ==
    /\ pc \notin {"reencode_raised", "fix_raised"}
    /\ pc = "reencoded" =>
           /\ Len(bitlist) = Len(input)
           /\ Distance(bitlist, input) <= 1
           /\ (Distance(bitlist, input) = 0) <=> IsZero(syndrome)
    /\ pc = "replayed" => bitlist = input

C8_Witness ==
    /\ pc = "replayed"
    /\ Len(input) = 15
    /\ ~IsZero(syndrome)
    /\ hamming_encode(decoded_mes).val # input
    /\ bitlist = input

----------------------------------------------------------------------------
(* Properties of the compression pipeline, checked under SpecGdd *)

\* bits of the code word and of the message of the running family
CodeLen == IF family = 74 THEN 7 ELSE 15

MessageLen == IF family = 74 THEN 4 ELSE 11

\* byte j (1-based) of the input, the padding byte past its end
DataByte(j) == IF j <= Len(data) THEN data[j] ELSE 0

\* number of chunks of the input: one per byte, resp. one per byte pair
ChunkCount == IF family = 74 THEN Len(data) ELSE (Len(data) + 1) \div 2

\* the 8 or 16 bits of chunk c (0-based), MSB first
ChunkBits(c) ==
    IF family = 74 THEN _byte_to_bitlist(DataByte(c + 1))
    ELSE _byte_to_bitlist(DataByte(2 * c + 1)) \o _byte_to_bitlist(DataByte(2 * c + 2))

\* (base, syndrome) of chunk c
ChunkDecoded(c) == hamming_decode(SubSeq(ChunkBits(c), 1, CodeLen)).val

ChunkBase(c) == ChunkDecoded(c)[1]

\* chunks whose entries are in bases and deviations
ChunksDone ==
    IF pc = "call" THEN 0
    ELSE IF pc = "compress" THEN (IF family = 74 THEN pos ELSE pos \div 2)
    ELSE ChunkCount

Literals == {i \in 1..Len(bases) : is_list(bases[i])}

\* C1: decompressing what compress returned gives back the input bytes, for
\* both families, the empty input, single bytes and odd lengths included; an
\* odd-length input of the (15,11) family is padded with one zero byte and
\* one trailing byte is dropped again.
C1_RoundTrip ==
    /\ pc \notin {"compress_raised", "decompress_raised"}
    /\ (family = 1511 /\ pc # "call") =>
           /\ is_odd = (Len(data) % 2 = 1)
           /\ padded = IF is_odd THEN Append(data, 0) ELSE data
    /\ (family = 74 /\ pc # "call") => padded = data
    /\ pc = "decompressed" =>
           /\ result = data
           /\ Len(result) = 2 * Len(bases) - (IF is_odd THEN 1 ELSE 0)
                  \/ family = 74

C1_Witness ==
    /\ pc = "decompressed"
    /\ family = 1511
    /\ Len(data) = 5 /\ is_odd
    /\ data[1] = 255 /\ data[5] = 1
    /\ Len(bases) = 3
    /\ result = data

\* C4: dedup correctness.  In the bases compress returns, a chunk whose base
\* equals that of an earlier chunk is stored as an integer that resolves to
\* that base, and there are as many literal entries as distinct bases.
C4_DedupCorrect ==
    pc = "compressed" =>
        /\ Len(bases) = ChunkCount
        /\ \A c \in 0..(ChunkCount - 1) :
               (\E e \in 0..(c - 1) : ChunkBase(e) = ChunkBase(c)) =>
                   /\ ~is_list(bases[c + 1])
                   /\ bases[c + 1].int \in 0..(Len(bases) - 1)
                   /\ bases[bases[c + 1].int + 1] = [list |-> ChunkBase(c)]
        /\ Cardinality(Literals)
               = Cardinality({ChunkBase(c) : c \in 0..(ChunkCount - 1)})

C4_Witness ==
    /\ pc = "compressed"
    /\ ChunkCount = 3
    /\ ChunkBits(0) # ChunkBits(2)
    /\ ChunkBase(0) = ChunkBase(2)
    /\ ChunkBase(0) # ChunkBase(1)
    /\ is_list(bases[2])
    /\ bases[3] = [int |-> 0]

\* C9: shape of the compressed stream.  After every processed chunk and in the
\* returned result, bases and deviations have one entry per processed chunk,
\* entry i comes from input chunk i, every deviation is the chunk's syndrome
\* followed by its carry-over bit (4 resp. 5 bits), every literal base has k bits.
C9_StreamShape ==
    /\ Len(bases) = ChunksDone
    /\ Len(deviations) = ChunksDone
    /\ \A c \in 0..(ChunksDone - 1) :
           /\ Len(deviations[c + 1]) = CodeLen - MessageLen + 1
           /\ deviations[c + 1] = Append(ChunkDecoded(c)[2], ChunkBits(c)[CodeLen + 1])
           /\ is_list(bases[c + 1]) =>
                  /\ Len(bases[c + 1].list) = MessageLen
                  /\ bases[c + 1].list = ChunkBase(c)
           /\ ~is_list(bases[c + 1]) =>
                  /\ bases[c + 1].int \in 0..(Len(bases) - 1)
                  /\ bases[bases[c + 1].int + 1] = [list |-> ChunkBase(c)]

C9_Witness ==
    /\ pc = "compress"
    /\ family = 1511
    /\ pos = 4
    /\ Len(bases) = 2 /\ Len(deviations) = 2
    /\ ~is_list(bases[2])
    /\ deviations[1] # deviations[2]
    /\ deviations[2][5] = 1

\* C10: back-references are single-level.  In every state, an integer entry
\* bases[i] = j has 0 <= j < i, bases[j] is a literal, and j is the first chunk
\* whose base equals that of chunk i; so the lookup bases[bases[i]] of
\* decompress yields a literal.
C10_SingleLevelReferences ==
    \A i \in 0..(Len(bases) - 1) :
        ~is_list(bases[i + 1]) =>
            LET j == bases[i + 1].int
            IN  /\ 0 <= j /\ j < i
                /\ is_list(bases[j + 1])
                /\ ChunkBase(j) = ChunkBase(i)
                /\ \A e \in 0..(j - 1) : ChunkBase(e) # ChunkBase(i)
                /\ is_list(full_base(bases, i))

C10_Witness ==
    /\ pc = "decompress"
    /\ Len(bases) = 3
    /\ is_list(bases[1])
    /\ bases[2] = [int |-> 0]
    /\ bases[3] = [int |-> 0]
    /\ pos = 3

====
